---- MODULE Spec2Model ----
(***************************************************************************)
(* Conversation and message delivery engine of the Pulse backend:          *)
(* the Conversation and Message collections, the REST chat and group       *)
(* controllers and the socket chat handlers.  Every handler is a sequence  *)
(* of store calls; each store call is one atomic step (a single-document   *)
(* MongoDB operation), and handlers of different requests interleave       *)
(* between their store calls.                                              *)
(***************************************************************************)
EXTENDS Integers, FiniteSets, Sequences, TLC

\* ------------------------------------------------------------------ bounds
\* Requests (REST calls and socket events) accepted over a run.
MaxOps == 3
\* Conversation documents created over a run.
MaxConvs == 2
\* Handlers that may be suspended between two store calls at one time.
MaxInflight == 2

\* ------------------------------------------------------------- input sets
UserSeq == <<"u1", "u2", "u3">>
Users == {UserSeq[i] : i \in 1..Len(UserSeq)}
Rank(u) == CHOOSE i \in 1..Len(UserSeq) : UserSeq[i] = u
NoUser == "none"
\* A message reference that is not set, and a conversation id that resolves
\* to no document.
NoMsg == 0
NoConv == 0
\* A timestamp that is not set (no before cursor).
NoTime == 0

\* Connections: every user may hold two (two devices); a connection is named
\* by the user it belongs to and a number.
ConnIds == {1, 2}
Sockets == Users \X ConnIds
\* The user a connection belongs to.
Owner(s) == s[1]
\* The connection of a handler that needs none.
NoSock == <<NoUser, 0>>
\* One connection per user.
MainSockets == {s \in Sockets : s[2] = 1}

\* Message bodies a client may put in a send_message event: a text, an
\* empty text without media, and an image with media and no caption.
Bodies ==
  { [content |-> "hi", type |-> "text",   media |-> FALSE],
    [content |-> "",   type |-> "text",   media |-> FALSE],
    [content |-> "",   type |-> "image",  media |-> TRUE] }

NoBody == [content |-> "", type |-> "none", media |-> FALSE]

VARIABLES
  convs,      \* Conversation collection: _id -> document
  messages,   \* Message collection: _id -> document
  nextConv,   \* next Conversation _id (ObjectIds are never reused)
  nextMsg,    \* next Message _id, also the insertion order of messages
  inflight,   \* handlers suspended between two store calls
  ops,        \* number of requests accepted so far
  resp,       \* the last REST response or socket acknowledgment sent
  returned,   \* history: <<pair, id>> for every getOrCreateConversation reply
  seenMark,   \* history: conv -> user -> nextMsg at the user's last markSeen or join
  rooms,      \* socket rooms: connection -> rooms the connection is in
  sent,       \* the last broadcast: event, room, message and copies per connection
  read,       \* the last reply of a read endpoint, and the pages handed out so far
  socketUserId, \* socket.userId of every connection, NoUser while it is not set
  connected   \* connection -> whether it is still open

\* socket.userId, the user every socket handler acts for.
SockUser(s) == socketUserId[s]

\* Every connection is open and has announced its owner.
Announced ==
  /\ socketUserId = [s \in Sockets |-> Owner(s)]
  /\ connected = [s \in Sockets |-> TRUE]

vars == <<convs, messages, nextConv, nextMsg, inflight, ops, resp, returned, seenMark, rooms,
         sent, read, socketUserId, connected>>

\* ------------------------------------------------- documents and queries
\* participants is an array; it is kept as a bag (user -> occurrences),
\* which is what $all, $size, $addToSet and $pull depend on.
EmptyBag == [u \in Users |-> 0]
BagOf(S) == [u \in Users |-> IF u \in S THEN 1 ELSE 0]
BagAdd(b, u) == [b EXCEPT ![u] = @ + 1]
BagSize(b) == LET RECURSIVE Sum(_)
                  Sum(S) == IF S = {} THEN 0
                            ELSE LET x == CHOOSE y \in S : TRUE
                                 IN b[x] + Sum(S \ {x})
              IN Sum(Users)
Members(conv) == {u \in Users : conv.participants[u] > 0}

\* Query {participants: u} on an array field.
HasParticipant(conv, u) == conv.participants[u] > 0
\* Query {admins: u}.
HasAdmin(conv, u) == u \in conv.admins

\* Map fields (unreadCounts) are functions whose domain is the key set.
MapSet(m, keys, v) == [k \in (DOMAIN m) \cup keys |-> IF k \in keys THEN v ELSE m[k]]
\* The same update written with $set: every counter in keys becomes 1.
MapIncAsSet(m, keys) == MapSet(m, keys, 1)

\* $inc creates a missing field with the increment as its value.
MapInc(m, keys) ==
  [k \in (DOMAIN m) \cup keys |->
     IF k \in keys THEN (IF k \in DOMAIN m THEN m[k] + 1 ELSE 1) ELSE m[k]]

\* The update written with $push: the array gains the user once more.
ReadByPush(readBy, u) == BagAdd(readBy, u)

\* $addToSet: {readBy: u} on an array field: the user is appended only when
\* the array does not hold it yet.
ReadByAddToSet(readBy, u) == IF readBy[u] > 0 THEN readBy ELSE BagAdd(readBy, u)

\* Function update that may extend the domain (insert or replace a document).
Put(f, k, v) == [x \in (DOMAIN f) \cup {k} |-> IF x = k THEN v ELSE f[x]]
Drop(f, S) == [x \in (DOMAIN f) \ S |-> f[x]]

\* Schema defaults of a new Conversation document.
NewConv(type, parts, admins, creator, preview, unread) ==
  [ type |-> type, groupName |-> "", participants |-> parts, admins |-> admins,
    createdBy |-> creator, lastMessage |-> NoMsg,
    lastMessageContent |-> preview, lastMessageSender |-> NoUser,
    unreadCounts |-> unread ]

\* Schema defaults of a new Message document.
NewMessage(conv, sender, type, content, media) ==
  [ conversation |-> conv, sender |-> sender, type |-> type,
    content |-> content, media |-> media, reactions |-> << >>,
    readBy |-> EmptyBag, isDeleted |-> FALSE, createdAt |-> NoTime,
    replyTo |-> NoMsg ]

\* A handler suspended at a store call; unused fields keep their defaults.
FreeSlot == CHOOSE i \in 1..MaxInflight :
              /\ \A h \in inflight : h.id # i
              /\ \A j \in 1..(i - 1) : \E h \in inflight : h.id = j

Handler(op, pc, actor, conv) ==
  [ id |-> FreeSlot, op |-> op, pc |-> pc, actor |-> actor, conv |-> conv,
    target |-> NoUser, users |-> {}, msg |-> NoMsg, body |-> NoBody,
    name |-> "", prev |-> "", sock |-> NoSock,
    limit |-> NoMsg, before |-> NoTime ]

Response(op, status, id) == [op |-> op, status |-> status]

\* Users are interchangeable: no handler looks at a user id other than to
\* compare it with another.  Requests therefore name users in order of first
\* appearance: a user the state does not mention yet is named only together
\* with every unmentioned user of lower rank, which keeps one representative
\* of each class of states that differ by a renaming of users.
Mentioned ==
  UNION {Members(convs[c]) \cup convs[c].admins \cup (DOMAIN convs[c].unreadCounts)
           \cup ({convs[c].createdBy, convs[c].lastMessageSender} \cap Users) : c \in DOMAIN convs}
  \cup UNION {{messages[m].sender} \cup {u \in Users : messages[m].readBy[u] > 0} :
                m \in DOMAIN messages}
  \cup UNION {({h.actor, h.target} \cap Users) \cup h.users : h \in inflight}
  \cup UNION {x[1] : x \in returned}
  \cup {SockUser(s) : s \in {t \in Sockets : rooms[t] # {}}}
InOrder(N) ==
  \A u \in N \ Mentioned : \A v \in Users \ (Mentioned \cup N) : Rank(u) < Rank(v)

\* A request naming the users N is accepted: it counts against the bound of the run.
CanAccept(N) == ops < MaxOps /\ Cardinality(inflight) < MaxInflight /\ InOrder(N)
\* An insert into the Conversation collection is accepted only while the
\* collection's bound has room for it and for the inserts already pending.
RoomForConv ==
  nextConv + Cardinality({h \in inflight : h.op = "getOrCreateConversation"}) <= MaxConvs
Step(h, pc) == (inflight \ {h}) \cup {[h EXCEPT !.pc = pc]}

\* Message.create: the document gets the next _id and, from {timestamps:
\* true}, the time of the insert.  Inserts made by the handlers fall into
\* successive instants; inserts sharing an instant are drawn by InitPaging.
CreateMessage(conv, sender, type, content, media) ==
  /\ messages' = Put(messages, nextMsg,
                     [NewMessage(conv, sender, type, content, media) EXCEPT !.createdAt = nextMsg])
  /\ nextMsg' = nextMsg + 1

\* ------------------------------------------------------------ broadcasts
\* The emit reaching no connection.
InRoomNobody(room) == [s \in Sockets |-> 0]

\* io.to(room).emit: one copy for every connection in the room.
InRoom(room) == [s \in Sockets |-> IF room \in rooms[s] THEN 1 ELSE 0]
\* socket.to(room).emit: the room without the emitting connection.
InRoomExcept(room, s) == [InRoom(room) EXCEPT ![s] = 0]
Event(event, room, msg, to) == [event |-> event, room |-> room, msg |-> msg, to |-> to]
NoEvent == Event("none", NoConv, NoMsg, [s \in Sockets |-> 0])
\* No read endpoint has replied yet.
NoRead == [op |-> "none", status |-> "none", data |-> {}, limit |-> NoMsg, got |-> << >>]

\* ------------------------------------------------------------------ Init
Init ==
  /\ Announced
  /\ convs = << >>
  /\ messages = << >>
  /\ nextConv = 1
  /\ nextMsg = 1
  /\ inflight = {}
  /\ ops = 0
  /\ resp = Response("none", "none", 0)
  /\ returned = {}
  /\ seenMark = << >>
  /\ rooms = [s \in Sockets |-> {}]
  /\ sent = NoEvent
  /\ read = NoRead

\* ------------------------------------------- getOrCreateConversation (DM)
\* findOne({type:'direct', participants:{$all:[a,b], $size:2}})
DirectMatches(a, b) ==
  {c \in DOMAIN convs :
     /\ convs[c].type = "direct"
     /\ b \in Users
     /\ HasParticipant(convs[c], a) /\ HasParticipant(convs[c], b)
     /\ BagSize(convs[c].participants) = 2}

\* findOne returns the first match in insertion order.
FindOne(S) == CHOOSE c \in S : \A d \in S : c <= d

GOC_Find(cur, target) ==
  /\ CanAccept({cur, target} \cap Users)
  /\ ops' = ops + 1
  /\ IF target = NoUser
     THEN /\ resp' = Response("getOrCreateConversation", "400", NoConv)
          /\ UNCHANGED <<inflight, returned>>
     ELSE IF DirectMatches(cur, target) # {}
     THEN /\ resp' = Response("getOrCreateConversation", "200", FindOne(DirectMatches(cur, target)))
          /\ returned' = returned \cup {<<{cur, target}, FindOne(DirectMatches(cur, target))>>}
          /\ UNCHANGED inflight
     ELSE /\ RoomForConv
          /\ inflight' = inflight \cup
               {[Handler("getOrCreateConversation", "create", cur, NoConv) EXCEPT !.target = target]}
          /\ UNCHANGED <<resp, returned>>
  /\ UNCHANGED <<convs, messages, nextConv, nextMsg, seenMark, rooms, sent, read, socketUserId, connected>>

GOC_Create(h) ==
  /\ h.op = "getOrCreateConversation" /\ h.pc = "create"
  /\ convs' = Put(convs, nextConv,
                  NewConv("direct", BagAdd(BagAdd(EmptyBag, h.actor), h.target), {}, NoUser,
                          "Started a conversation", MapSet(<< >>, {h.actor, h.target}, 0)))
  /\ nextConv' = nextConv + 1
  /\ seenMark' = Put(seenMark, nextConv, [u \in Users |-> nextMsg])
  /\ inflight' = inflight \ {h}
  /\ resp' = Response("getOrCreateConversation", "200", nextConv)
  /\ returned' = returned \cup {<<{h.actor, h.target}, nextConv>>}
  /\ UNCHANGED <<ops, messages, nextMsg, rooms, sent, read, socketUserId, connected>>

\* ----------------------------------------------------------- createGroup
GroupNames == {"", "team"}

\* participants.length < 2 is the only size check; the creator is then added
\* and duplicates are dropped ([...new Set([creatorId, ...participants])]).
CG_Valid(name, parts) == name # "" /\ Cardinality(parts) >= 2

CG_Create(creator, name, parts) ==
  /\ CanAccept({creator} \cup parts)
  /\ ops' = ops + 1
  /\ IF ~CG_Valid(name, parts)
     THEN /\ resp' = Response("createGroup", "400", NoConv)
          /\ UNCHANGED <<convs, nextConv, inflight, seenMark>>
     ELSE /\ RoomForConv
          /\ convs' = Put(convs, nextConv,
                 [NewConv("group", BagOf({creator} \cup parts), {creator}, creator,
                          "created the group", MapSet(<< >>, {creator} \cup parts, 0))
                    EXCEPT !.groupName = name])
          /\ nextConv' = nextConv + 1
          /\ seenMark' = Put(seenMark, nextConv, [u \in Users |-> nextMsg])
          /\ inflight' = inflight \cup {Handler("createGroup", "message", creator, nextConv)}
          /\ UNCHANGED resp
  /\ UNCHANGED <<messages, nextMsg, returned, rooms, sent, read, socketUserId, connected>>

CG_Message(h) ==
  /\ h.op = "createGroup" /\ h.pc = "message"
  /\ CreateMessage(h.conv, h.actor, "system", "created", FALSE)
  /\ inflight' = inflight \ {h}
  /\ resp' = Response("createGroup", "201", h.conv)
  /\ UNCHANGED <<ops, convs, nextConv, returned, seenMark, rooms, sent, read, socketUserId, connected>>

\* ------------------------------------------------------ group queries
\* Conversation ids a request can name: every id handed out so far, and one
\* that resolves to nothing.
KnownConvs == (1..(nextConv - 1)) \cup {NoConv}

\* findOne({_id: g, type: 'group', admins: actor})
FindGroupAsAdmin(g, actor) ==
  g \in DOMAIN convs /\ convs[g].type = "group" /\ HasAdmin(convs[g], actor)
\* findOne({_id: g, type: 'group', participants: actor})
FindGroupAsParticipant(g, actor) ==
  g \in DOMAIN convs /\ convs[g].type = "group" /\ HasParticipant(convs[g], actor)
\* The query without its role condition.
FindGroupAsAnyone(g, actor) ==
  g \in DOMAIN convs /\ convs[g].type = "group"

\* findOne({_id: g, type: 'group', createdBy: actor})
FindGroupAsCreator(g, actor) ==
  g \in DOMAIN convs /\ convs[g].type = "group" /\ convs[g].createdBy = actor

\* The creator guard left out.
IsCreatorIgnored(group, userId) == FALSE

\* String(group.createdBy) === String(userId)
IsCreator(group, userId) == group.createdBy = userId

\* findByIdAndUpdate(g, update): nothing happens when g no longer exists.
UpdateConv(g, doc) ==
  convs' = IF g \in DOMAIN convs THEN [convs EXCEPT ![g] = doc] ELSE convs
Doc(g) == IF g \in DOMAIN convs THEN convs[g] ELSE NewConv("direct", EmptyBag, {}, NoUser, "", << >>)

\* The update leaving the array alone.
AddParticipantsNone(conv, S) == conv

\* $addToSet: {participants: {$each: S}}
AddParticipants(conv, S) ==
  [conv EXCEPT !.participants = [u \in Users |-> IF u \in S /\ @[u] = 0 THEN 1 ELSE @[u]]]
\* $pull: {participants: u, admins: u}
PullMember(conv, u) ==
  [conv EXCEPT !.participants = [@ EXCEPT ![u] = 0], !.admins = @ \ {u}]

Fail(op, status) ==
  /\ resp' = Response(op, status, NoConv)
  /\ UNCHANGED <<convs, messages, nextConv, nextMsg, inflight, returned, seenMark, rooms, sent,
               read, socketUserId, connected>>

Suspend(h) ==
  /\ inflight' = inflight \cup {h}
  /\ UNCHANGED <<convs, messages, nextConv, nextMsg, resp, returned, seenMark, rooms, sent, read,
               socketUserId, connected>>

\* The last store call of a group handler: the system message, then the reply.
SystemMessage(h, content) ==
  /\ CreateMessage(h.conv, h.actor, "system", content, FALSE)
  /\ inflight' = inflight \ {h}
  /\ resp' = Response(h.op, "200", h.conv)
  /\ UNCHANGED <<ops, convs, nextConv, returned, seenMark, rooms, sent, read, socketUserId, connected>>

\* ------------------------------------------------------- addGroupMembers
AGM_Find(actor, g, userIds) ==
  /\ CanAccept({actor} \cup userIds)
  /\ ops' = ops + 1
  /\ IF userIds = {} THEN Fail("addGroupMembers", "400")
     ELSE IF ~FindGroupAsAdmin(g, actor) THEN Fail("addGroupMembers", "403")
     ELSE IF userIds \ Members(convs[g]) = {} THEN Fail("addGroupMembers", "400")
     ELSE Suspend([Handler("addGroupMembers", "addToSet", actor, g)
                     EXCEPT !.users = userIds \ Members(convs[g])])

AGM_AddToSet(h) ==
  /\ h.op = "addGroupMembers" /\ h.pc = "addToSet"
  /\ UpdateConv(h.conv, AddParticipants(Doc(h.conv), h.users))
  /\ seenMark' = IF h.conv \in DOMAIN convs
                 THEN [seenMark EXCEPT ![h.conv] =
                         [u \in Users |-> IF u \in h.users \ Members(convs[h.conv])
                                          THEN nextMsg ELSE @[u]]]
                 ELSE seenMark
  /\ inflight' = Step(h, "setUnread")
  /\ UNCHANGED <<ops, messages, nextConv, nextMsg, resp, returned, rooms, sent, read, socketUserId, connected>>

AGM_SetUnread(h) ==
  /\ h.op = "addGroupMembers" /\ h.pc = "setUnread"
  /\ UpdateConv(h.conv, [Doc(h.conv) EXCEPT !.unreadCounts = MapSet(@, h.users, 0)])
  /\ inflight' = Step(h, "message")
  /\ UNCHANGED <<ops, messages, nextConv, nextMsg, resp, returned, seenMark, rooms, sent, read,
               socketUserId, connected>>

AGM_Message(h) ==
  /\ h.op = "addGroupMembers" /\ h.pc = "message"
  /\ SystemMessage(h, "added")

\* ----------------------------------------------------- removeGroupMember
RGM_Find(actor, g, userId) ==
  /\ CanAccept({actor, userId})
  /\ ops' = ops + 1
  /\ IF ~FindGroupAsAdmin(g, actor) THEN Fail("removeGroupMember", "403")
     ELSE IF IsCreator(convs[g], userId) THEN Fail("removeGroupMember", "400")
     ELSE Suspend([Handler("removeGroupMember", "pull", actor, g)
                     EXCEPT !.target = userId, !.users = Members(convs[g])])

RGM_Pull(h) ==
  /\ h.op = "removeGroupMember" /\ h.pc = "pull"
  /\ UpdateConv(h.conv, PullMember(Doc(h.conv), h.target))
  /\ inflight' = Step(h, "message")
  /\ UNCHANGED <<ops, messages, nextConv, nextMsg, resp, returned, seenMark, rooms, sent, read,
               socketUserId, connected>>

RGM_Message(h) ==
  /\ h.op = "removeGroupMember" /\ h.pc = "message"
  /\ SystemMessage(h, "removed")

\* ------------------------------------------------------------ leaveGroup
LG_Find(actor, g) ==
  /\ CanAccept({actor})
  /\ ops' = ops + 1
  /\ IF ~FindGroupAsParticipant(g, actor) THEN Fail("leaveGroup", "404")
     ELSE IF IsCreator(convs[g], actor) THEN Fail("leaveGroup", "400")
     ELSE Suspend([Handler("leaveGroup", "pull", actor, g) EXCEPT !.target = actor])

LG_Pull(h) ==
  /\ h.op = "leaveGroup" /\ h.pc = "pull"
  /\ UpdateConv(h.conv, PullMember(Doc(h.conv), h.target))
  /\ inflight' = Step(h, "message")
  /\ UNCHANGED <<ops, messages, nextConv, nextMsg, resp, returned, seenMark, rooms, sent, read,
               socketUserId, connected>>

LG_Message(h) ==
  /\ h.op = "leaveGroup" /\ h.pc = "message"
  /\ SystemMessage(h, "left")

\* ------------------------------------------------------------- makeAdmin
MA_Find(actor, g, userId) ==
  /\ CanAccept({actor, userId})
  /\ ops' = ops + 1
  /\ IF ~FindGroupAsCreator(g, actor) THEN Fail("makeAdmin", "403")
     ELSE IF ~HasParticipant(convs[g], userId) THEN Fail("makeAdmin", "400")
     ELSE Suspend([Handler("makeAdmin", "addToSet", actor, g) EXCEPT !.target = userId])

MA_AddToSet(h) ==
  /\ h.op = "makeAdmin" /\ h.pc = "addToSet"
  /\ UpdateConv(h.conv, [Doc(h.conv) EXCEPT !.admins = @ \cup {h.target}])
  /\ inflight' = Step(h, "message")
  /\ UNCHANGED <<ops, messages, nextConv, nextMsg, resp, returned, seenMark, rooms, sent, read,
               socketUserId, connected>>

MA_Message(h) ==
  /\ h.op = "makeAdmin" /\ h.pc = "message"
  /\ SystemMessage(h, "is now an admin")

\* ----------------------------------------------------------- removeAdmin
RA_Find(actor, g, userId) ==
  /\ CanAccept({actor, userId})
  /\ ops' = ops + 1
  /\ IF ~FindGroupAsCreator(g, actor) THEN Fail("removeAdmin", "403")
     ELSE IF IsCreator(convs[g], userId) THEN Fail("removeAdmin", "400")
     ELSE Suspend([Handler("removeAdmin", "pull", actor, g) EXCEPT !.target = userId])

RA_Pull(h) ==
  /\ h.op = "removeAdmin" /\ h.pc = "pull"
  /\ UpdateConv(h.conv, [Doc(h.conv) EXCEPT !.admins = @ \ {h.target}])
  /\ inflight' = Step(h, "message")
  /\ UNCHANGED <<ops, messages, nextConv, nextMsg, resp, returned, seenMark, rooms, sent, read,
               socketUserId, connected>>

RA_Message(h) ==
  /\ h.op = "removeAdmin" /\ h.pc = "message"
  /\ SystemMessage(h, "is no longer an admin")

\* ----------------------------------------------------------- deleteGroup
DG_Find(actor, g) ==
  /\ CanAccept({actor})
  /\ ops' = ops + 1
  /\ IF ~FindGroupAsCreator(g, actor) THEN Fail("deleteGroup", "403")
     ELSE Suspend(Handler("deleteGroup", "deleteMany", actor, g))

\* Message.deleteMany({conversation: g})
DG_DeleteMany(h) ==
  /\ h.op = "deleteGroup" /\ h.pc = "deleteMany"
  /\ messages' = Drop(messages, {m \in DOMAIN messages : messages[m].conversation = h.conv})
  /\ inflight' = Step(h, "delete")
  /\ UNCHANGED <<ops, convs, nextConv, nextMsg, resp, returned, seenMark, rooms, sent, read,
               socketUserId, connected>>

\* Conversation.findByIdAndDelete(g)
DG_Delete(h) ==
  /\ h.op = "deleteGroup" /\ h.pc = "delete"
  /\ convs' = Drop(convs, {h.conv})
  /\ seenMark' = Drop(seenMark, {h.conv})
  /\ inflight' = inflight \ {h}
  /\ resp' = Response("deleteGroup", "200", h.conv)
  /\ UNCHANGED <<ops, messages, nextConv, nextMsg, returned, rooms, sent, read, socketUserId, connected>>

\* ------------------------------------------------------- updateGroupInfo
\* Group names a request can carry; the empty name leaves the name alone.
UpdateNames == {"", "team", "crew"}

UGI_Find(actor, g, name) ==
  /\ CanAccept({actor})
  /\ ops' = ops + 1
  /\ IF ~FindGroupAsAdmin(g, actor) THEN Fail("updateGroupInfo", "403")
     ELSE Suspend([Handler("updateGroupInfo", "update", actor, g)
                     EXCEPT !.name = name, !.prev = convs[g].groupName])

\* findByIdAndUpdate(groupId, {$set: updates}); the system message follows
\* only when the name differs from the one read by the findOne.
UGI_Update(h) ==
  /\ h.op = "updateGroupInfo" /\ h.pc = "update"
  /\ UpdateConv(h.conv, IF h.name # "" THEN [Doc(h.conv) EXCEPT !.groupName = h.name]
                        ELSE Doc(h.conv))
  /\ IF h.name # "" /\ h.name # h.prev
     THEN /\ inflight' = Step(h, "message")
          /\ UNCHANGED resp
     ELSE /\ inflight' = inflight \ {h}
          /\ resp' = Response("updateGroupInfo", "200", h.conv)
  /\ UNCHANGED <<ops, messages, nextConv, nextMsg, returned, seenMark, rooms, sent, read, socketUserId, connected>>

UGI_Message(h) ==
  /\ h.op = "updateGroupInfo" /\ h.pc = "message"
  /\ SystemMessage(h, "changed the group name")

\* ---------------------------------------------------------- send_message
\* Message ids a request can name: every id handed out so far.
KnownMsgs == 1..(nextMsg - 1)

\* The preview text of the conversation list.
PreviewText(body) ==
  IF body.type = "image" THEN "Photo"
  ELSE IF body.type = "gif" THEN "GIF"
  ELSE IF body.type = "sticker" THEN "Sticker"
  ELSE IF body.type = "video" THEN "Video"
  ELSE body.content

\* The update setting the preview fields and leaving the counters for later.
SendUpdatePreviewOnly(conv, h) ==
  [conv EXCEPT !.lastMessage = h.msg,
               !.lastMessageContent = PreviewText(h.body),
               !.lastMessageSender = h.actor]

\* The update of the conversation document: the preview fields are set and
\* $inc adds one to the counter of every user in keys.
SendUpdate(conv, h) ==
  [conv EXCEPT !.lastMessage = h.msg,
               !.lastMessageContent = PreviewText(h.body),
               !.lastMessageSender = h.actor,
               !.unreadCounts = MapInc(@, h.users)]

\* Message.create(messageData): the schema requires neither content nor media.
SM_CreateFrom(s, c, body, replyTo) ==
  /\ connected[s]
  /\ CanAccept({SockUser(s)})
  /\ ops' = ops + 1
  /\ messages' = Put(messages, nextMsg,
                     [NewMessage(c, SockUser(s), body.type, body.content, body.media)
                        EXCEPT !.createdAt = nextMsg, !.replyTo = replyTo])
  /\ nextMsg' = nextMsg + 1
  /\ inflight' = inflight \cup
       {[Handler("send_message", "populate", SockUser(s), c)
           EXCEPT !.msg = nextMsg, !.body = body, !.sock = s]}
  /\ UNCHANGED <<convs, nextConv, resp, returned, seenMark, rooms, sent, read,
               socketUserId, connected>>

\* A send_message event without replyTo from a connection of the actor.
SM_Create(actor, c, body) ==
  \E s \in MainSockets : SockUser(s) = actor /\ SM_CreateFrom(s, c, body, NoMsg)

\* Message.findById(newMessage._id).populate(...): null when the message is gone.
SM_Populate(h) ==
  /\ h.op = "send_message" /\ h.pc = "populate"
  /\ inflight' = (inflight \ {h}) \cup
       {[h EXCEPT !.pc = "findConv",
                  !.msg = IF h.msg \in DOMAIN messages THEN h.msg ELSE NoMsg]}
  /\ UNCHANGED <<convs, messages, nextConv, nextMsg, ops, resp, returned, seenMark, rooms, sent,
               read, socketUserId, connected>>

\* Conversation.findById(conversationId); a missing conversation, or a missing
\* newMessage when the update is built, throws and the handler acknowledges
\* the error.  otherParticipants is taken from the document read here.
SM_FindConv(h) ==
  /\ h.op = "send_message" /\ h.pc = "findConv"
  /\ IF h.conv \notin DOMAIN convs \/ h.msg = NoMsg
     THEN /\ inflight' = inflight \ {h}
          /\ resp' = Response("send_message", "error", NoMsg)
     ELSE /\ inflight' = (inflight \ {h}) \cup
               {[h EXCEPT !.pc = "update", !.users = Members(convs[h.conv]) \ {h.actor}]}
          /\ UNCHANGED resp
  /\ UNCHANGED <<convs, messages, nextConv, nextMsg, ops, returned, seenMark, rooms, sent, read,
               socketUserId, connected>>

\* Conversation.findByIdAndUpdate(...), then the broadcast and the acknowledgment.
SM_Update(h) ==
  /\ h.op = "send_message" /\ h.pc = "update"
  /\ UpdateConv(h.conv, SendUpdate(Doc(h.conv), h))
  /\ inflight' = inflight \ {h}
  /\ sent' = Event("new_message", h.conv, h.msg, InRoom(h.conv))
  /\ resp' = Response("send_message", "ok", h.msg)
  /\ UNCHANGED <<messages, nextConv, nextMsg, ops, returned, seenMark, rooms, read, socketUserId, connected>>

\* The catch block of send_message that also tells the room.
CatchSendAndBroadcast(h) ==
  /\ resp' = Response("send_message", "error", NoMsg)
  /\ sent' = Event("new_message", h.conv, h.msg, InRoom(h.conv))

\* The catch block of send_message: the error goes to the callback of the
\* event, nothing is emitted.
CatchSend(h) ==
  /\ resp' = Response("send_message", "error", NoMsg)
  /\ sent' = sent

\* Conversation.findByIdAndUpdate(...) rejects: the store may or may not have
\* applied the update before the error reached the handler.
SM_UpdateFails(h) ==
  /\ h.op = "send_message" /\ h.pc = "update"
  /\ \E applied \in BOOLEAN :
       UpdateConv(h.conv, IF applied THEN SendUpdate(Doc(h.conv), h) ELSE Doc(h.conv))
  /\ inflight' = inflight \ {h}
  /\ CatchSend(h)
  /\ UNCHANGED <<messages, nextConv, nextMsg, ops, returned, seenMark, rooms, read,
               socketUserId, connected>>

\* ------------------------------------------------------------- mark_seen
\* $set: {unreadCounts.<actor>: 0}; markSeen restarts the actor's count.
ResetUnread(c, actor) ==
  /\ UpdateConv(c, [Doc(c) EXCEPT !.unreadCounts = MapSet(@, {actor}, 0)])
  /\ seenMark' = IF c \in DOMAIN convs
                 THEN [seenMark EXCEPT ![c] = [@ EXCEPT ![actor] = nextMsg]]
                 ELSE seenMark

\* socket.to(conversationId).emit('messages_seen', ...): the last statement
\* of the handler, after the update of the message when an id was given.
SeenEvent(s, c, messageId) == Event("messages_seen", c, messageId, InRoomExcept(c, s))

MS_Set(s, c, messageId) ==
  /\ connected[s]
  /\ CanAccept({SockUser(s)} \cap Users)
  /\ ops' = ops + 1
  /\ ResetUnread(c, SockUser(s))
  /\ IF messageId # NoMsg
     THEN /\ inflight' = inflight \cup
               {[Handler("mark_seen", "readBy", SockUser(s), c)
                   EXCEPT !.msg = messageId, !.sock = s]}
          /\ UNCHANGED sent
     ELSE /\ sent' = SeenEvent(s, c, messageId)
          /\ UNCHANGED inflight
  /\ UNCHANGED <<messages, nextConv, nextMsg, resp, returned, rooms, read, socketUserId, connected>>

\* Message.findByIdAndUpdate(messageId, {$addToSet: {readBy: actor}})
MS_ReadBy(h) ==
  /\ h.op = "mark_seen" /\ h.pc = "readBy"
  /\ messages' = IF h.msg \in DOMAIN messages
                 THEN [messages EXCEPT ![h.msg].readBy = ReadByAddToSet(@, h.actor)]
                 ELSE messages
  /\ inflight' = inflight \ {h}
  /\ sent' = SeenEvent(h.sock, h.conv, h.msg)
  /\ UNCHANGED <<convs, nextConv, nextMsg, ops, resp, returned, seenMark, rooms, read, socketUserId, connected>>

\* ------------------------------------------- markConversationRead (REST)
MCR(actor, c) ==
  /\ CanAccept({actor})
  /\ ops' = ops + 1
  /\ ResetUnread(c, actor)
  /\ resp' = Response("markConversationRead", "200", c)
  /\ UNCHANGED <<messages, nextConv, nextMsg, inflight, returned, rooms, sent, read, socketUserId, connected>>

\* ------------------------------------------------ typing_start / _stop
\* socket.to(conversationId).emit('user_typing', {userId, isTyping}); nothing
\* is stored.
Typing(s, c, isTyping) ==
  /\ connected[s]
  /\ CanAccept({SockUser(s)} \cap Users)
  /\ ops' = ops + 1
  /\ sent' = Event(IF isTyping THEN "user_typing(true)" ELSE "user_typing(false)",
                   c, NoMsg, InRoomExcept(c, s))
  /\ UNCHANGED <<convs, messages, nextConv, nextMsg, inflight, resp, returned, seenMark, rooms,
               read, socketUserId, connected>>

\* ------------------------------------------ add_reaction / remove_reaction
Tokens == {"like", "love"}

\* The update replacing the whole map by the actor's entry.
SetReactionOnly(reactions, actor, token) == MapSet(<< >>, {actor}, token)

\* $set: {reactions.<actor>: token}
SetReaction(reactions, actor, token) == MapSet(reactions, {actor}, token)
\* $unset: {reactions.<actor>: ""}
UnsetReaction(reactions, actor) == Drop(reactions, {actor})

\* Message.findByIdAndUpdate(messageId, ...), then io.to(conversationId).emit
\* with the conversation id of the event; the handler takes no callback.
AddReaction(actor, c, messageId, token) ==
  /\ CanAccept({actor})
  /\ ops' = ops + 1
  /\ messages' = IF messageId \in DOMAIN messages
                 THEN [messages EXCEPT ![messageId].reactions = SetReaction(@, actor, token)]
                 ELSE messages
  /\ sent' = Event("message_reaction", c, messageId, InRoom(c))
  /\ UNCHANGED <<convs, nextConv, nextMsg, inflight, resp, returned, seenMark, rooms, read,
               socketUserId, connected>>

RemoveReaction(actor, c, messageId) ==
  /\ CanAccept({actor})
  /\ ops' = ops + 1
  /\ messages' = IF messageId \in DOMAIN messages
                 THEN [messages EXCEPT ![messageId].reactions = UnsetReaction(@, actor)]
                 ELSE messages
  /\ sent' = Event("message_reaction", c, messageId, InRoom(c))
  /\ UNCHANGED <<convs, nextConv, nextMsg, inflight, resp, returned, seenMark, rooms, read,
               socketUserId, connected>>

\* ------------------------------------- delete_message and deleteMessage
\* The query without its sender condition.
FindAnyMessage(messageId, actor) == messageId \in DOMAIN messages

\* findOne({_id: messageId, sender: actor})
FindOwnMessage(messageId, actor) ==
  messageId \in DOMAIN messages /\ messages[messageId].sender = actor

\* findByIdAndUpdate(messageId, {isDeleted: true, content: '...deleted'})
SoftDelete(messageId) ==
  messages' = IF messageId \in DOMAIN messages
              THEN [messages EXCEPT ![messageId].isDeleted = TRUE,
                                    ![messageId].content = "This message was deleted"]
              ELSE messages

\* Socket delete_message.
DEL_Find(actor, c, messageId) ==
  /\ CanAccept({actor})
  /\ ops' = ops + 1
  /\ IF ~FindOwnMessage(messageId, actor)
     THEN /\ resp' = Response("delete_message", "error", messageId)
          /\ UNCHANGED inflight
     ELSE /\ inflight' = inflight \cup
               {[Handler("delete_message", "update", actor, c) EXCEPT !.msg = messageId]}
          /\ UNCHANGED resp
  /\ UNCHANGED <<convs, messages, nextConv, nextMsg, returned, seenMark, rooms, sent, read,
               socketUserId, connected>>

DEL_Update(h) ==
  /\ h.op = "delete_message" /\ h.pc = "update"
  /\ SoftDelete(h.msg)
  /\ sent' = Event("message_deleted", h.conv, h.msg, InRoom(h.conv))
  /\ resp' = Response("delete_message", "ok", h.msg)
  /\ inflight' = inflight \ {h}
  /\ UNCHANGED <<convs, nextConv, nextMsg, ops, returned, seenMark, rooms, read, socketUserId, connected>>

\* REST deleteMessage.
DM_Find(actor, messageId) ==
  /\ CanAccept({actor})
  /\ ops' = ops + 1
  /\ IF ~FindOwnMessage(messageId, actor)
     THEN /\ resp' = Response("deleteMessage", "404", messageId)
          /\ UNCHANGED inflight
     ELSE /\ inflight' = inflight \cup
               {[Handler("deleteMessage", "update", actor, NoConv) EXCEPT !.msg = messageId]}
          /\ UNCHANGED resp
  /\ UNCHANGED <<convs, messages, nextConv, nextMsg, returned, seenMark, rooms, sent, read,
               socketUserId, connected>>

DM_Update(h) ==
  /\ h.op = "deleteMessage" /\ h.pc = "update"
  /\ SoftDelete(h.msg)
  /\ resp' = Response("deleteMessage", "200", h.msg)
  /\ inflight' = inflight \ {h}
  /\ UNCHANGED <<convs, nextConv, nextMsg, ops, returned, seenMark, rooms, sent, read, socketUserId, connected>>

\* ------------------------------------------------------------ getMessages
\* const { limit = 50, before } = req.query
DefaultLimit == 50

\* The query without its participant condition.
FindConvById(c, actor) == c \in DOMAIN convs

\* findOne({_id: c, participants: actor})
FindConvAsParticipant(c, actor) == c \in DOMAIN convs /\ HasParticipant(convs[c], actor)

\* {conversation: c, isDeleted: {$ne: true}, createdAt: {$lt: before}}
HistoryQuery(c, before) ==
  {m \in DOMAIN messages :
     /\ messages[m].conversation = c
     /\ ~messages[m].isDeleted
     /\ before # NoTime => messages[m].createdAt < before}

\* sort({createdAt: -1}).limit(limit): the pages the query may return.  The
\* order among messages of equal createdAt is not determined by the sort, so
\* any of them may fill the last places of the page.
Pages(S, limit) ==
  {P \in SUBSET S :
     /\ Cardinality(P) = (IF Cardinality(S) < limit THEN Cardinality(S) ELSE limit)
     /\ \A x \in P, y \in S \ P : messages[x].createdAt >= messages[y].createdAt}

ReadReply(op, status, data, limit, got) ==
  [op |-> op, status |-> status, data |-> data, limit |-> limit, got |-> got]

\* The messages handed out since the request without a cursor, with the
\* number of times each was handed out.
Collect(got, P) ==
  [m \in (DOMAIN got) \cup P |->
     (IF m \in DOMAIN got THEN got[m] ELSE 0) + (IF m \in P THEN 1 ELSE 0)]

GM_Find(actor, c, limit, before) ==
  /\ CanAccept({actor})
  /\ ops' = ops + 1
  /\ IF ~FindConvAsParticipant(c, actor)
     THEN /\ read' = ReadReply("getMessages", "403", {}, limit, << >>)
          /\ UNCHANGED inflight
     ELSE /\ inflight' = inflight \cup
               {[Handler("getMessages", "query", actor, c) EXCEPT !.limit = limit, !.before = before]}
          /\ UNCHANGED read
  /\ UNCHANGED <<convs, messages, nextConv, nextMsg, resp, returned, seenMark, rooms, sent,
               socketUserId, connected>>

GM_Query(h) ==
  /\ h.op = "getMessages" /\ h.pc = "query"
  /\ \E P \in Pages(HistoryQuery(h.conv, h.before), h.limit) :
       read' = ReadReply("getMessages", "200", P, h.limit,
                         Collect(IF h.before = NoTime THEN << >> ELSE read.got, P))
  /\ inflight' = inflight \ {h}
  /\ UNCHANGED <<convs, messages, nextConv, nextMsg, ops, resp, returned, seenMark, rooms, sent,
               socketUserId, connected>>

\* The cursor of the next request: the oldest createdAt of the page in hand.
Oldest(P) == CHOOSE t \in {messages[m].createdAt : m \in P} :
               \A m \in P : t <= messages[m].createdAt
NextCursor == IF read.op = "getMessages" /\ read.status = "200"
                 /\ read.data # {} /\ read.data \subseteq DOMAIN messages
              THEN Oldest(read.data) ELSE NoTime

\* ------------------------------------------------- getConversationDetails
GetConversationDetails(actor, c) ==
  /\ CanAccept({actor})
  /\ ops' = ops + 1
  /\ read' = IF FindConvAsParticipant(c, actor)
             THEN ReadReply("getConversationDetails", "200", {c}, NoMsg, << >>)
             ELSE ReadReply("getConversationDetails", "404", {}, NoMsg, << >>)
  /\ UNCHANGED <<convs, messages, nextConv, nextMsg, inflight, resp, returned, seenMark, rooms,
               sent, socketUserId, connected>>

Next ==
  \/ \E a \in Users, b \in Users \cup {NoUser} : GOC_Find(a, b)
  \/ \E h \in inflight : GOC_Create(h)
  \/ \E a \in Users, n \in GroupNames, P \in SUBSET Users : CG_Create(a, n, P)
  \/ \E h \in inflight : CG_Message(h)
  \/ \E a \in Users, g \in KnownConvs, P \in SUBSET Users : AGM_Find(a, g, P)
  \/ \E h \in inflight : AGM_AddToSet(h)
  \/ \E h \in inflight : AGM_SetUnread(h)
  \/ \E h \in inflight : AGM_Message(h)
  \/ \E a \in Users, g \in KnownConvs, t \in Users : RGM_Find(a, g, t)
  \/ \E h \in inflight : RGM_Pull(h)
  \/ \E h \in inflight : RGM_Message(h)
  \/ \E a \in Users, g \in KnownConvs : LG_Find(a, g)
  \/ \E h \in inflight : LG_Pull(h)
  \/ \E h \in inflight : LG_Message(h)
  \/ \E a \in Users, g \in KnownConvs, t \in Users : MA_Find(a, g, t)
  \/ \E h \in inflight : MA_AddToSet(h)
  \/ \E h \in inflight : MA_Message(h)
  \/ \E a \in Users, g \in KnownConvs, t \in Users : RA_Find(a, g, t)
  \/ \E h \in inflight : RA_Pull(h)
  \/ \E h \in inflight : RA_Message(h)
  \/ \E a \in Users, g \in KnownConvs : DG_Find(a, g)
  \/ \E h \in inflight : DG_DeleteMany(h)
  \/ \E h \in inflight : DG_Delete(h)
  \/ \E a \in Users, c \in KnownConvs, b \in Bodies : SM_Create(a, c, b)
  \/ \E h \in inflight : SM_Populate(h)
  \/ \E h \in inflight : SM_FindConv(h)
  \/ \E h \in inflight : SM_Update(h)
  \/ \E s \in MainSockets, c \in KnownConvs, m \in KnownMsgs \cup {NoMsg} : MS_Set(s, c, m)
  \/ \E h \in inflight : MS_ReadBy(h)
  \/ \E a \in Users, c \in KnownConvs : MCR(a, c)

Spec == Init /\ [][Next]_vars

\* ------------------------------------------- sends on a fixed membership
\* One conversation exists and its creating request has completed: a direct
\* conversation, or a group of two or three members with its system message.
\* Only send_message events of its participants follow.
FixedConv == CHOOSE c \in 1..MaxConvs : \A d \in 1..MaxConvs : c <= d

FixedStores ==
  /\ \E P \in {{"u1", "u2"}, Users}, type \in {"direct", "group"} :
       /\ type = "direct" => Cardinality(P) = 2
       /\ convs = (FixedConv :> (IF type = "direct"
                       THEN NewConv("direct", BagOf(P), {}, NoUser, "Started a conversation",
                                    MapSet(<< >>, P, 0))
                       ELSE [NewConv("group", BagOf(P), {"u1"}, "u1", "created the group",
                                     MapSet(<< >>, P, 0)) EXCEPT !.groupName = "team"]))
       /\ messages = (IF type = "direct" THEN << >>
                      ELSE (1 :> [NewMessage(FixedConv, "u1", "system", "created", FALSE) EXCEPT !.createdAt = 1]))
       /\ nextMsg = (IF type = "direct" THEN 1 ELSE 2)
       /\ resp = (IF type = "direct" THEN Response("getOrCreateConversation", "200", FixedConv)
                  ELSE Response("createGroup", "201", FixedConv))
       /\ returned = (IF type = "direct" THEN {<<P, FixedConv>>} ELSE {})
  /\ nextConv = 2
  /\ inflight = {}
  /\ ops = 0
  /\ seenMark = (FixedConv :> [u \in Users |-> 1])
  /\ sent = NoEvent
  /\ read = NoRead

InitFixed ==
  /\ Announced
  /\ FixedStores
  /\ rooms = [s \in Sockets |-> {}]

\* The bodies sent: those that carry content or media.
FixedBodies == {b \in Bodies : b.content # "" \/ b.media}

NextFixed ==
  \/ \E a \in Members(convs[FixedConv]), b \in FixedBodies : SM_Create(a, FixedConv, b)
  \/ \E h \in inflight : SM_Populate(h)
  \/ \E h \in inflight : SM_FindConv(h)
  \/ \E h \in inflight : SM_Update(h)

SpecFixed == InitFixed /\ [][NextFixed]_vars

\* ---------------------------------------------------------- socket rooms
\* join_conversation: findOne({_id, participants: socket.userId}), then
\* socket.join; otherwise an error event is emitted to the socket.
JoinConversation(s, c) ==
  /\ connected[s]
  /\ CanAccept({SockUser(s)} \cap Users)
  /\ ops' = ops + 1
  /\ IF c \in DOMAIN convs /\ SockUser(s) \in Users /\ HasParticipant(convs[c], SockUser(s))
     THEN /\ rooms' = [rooms EXCEPT ![s] = @ \cup {c}]
          /\ UNCHANGED resp
     ELSE /\ resp' = Response("join_conversation", "error", c)
          /\ UNCHANGED rooms
  /\ UNCHANGED <<convs, messages, nextConv, nextMsg, inflight, returned, seenMark, sent, read,
               socketUserId, connected>>

\* join-room of the connection handler of the server: socket.join(room).
JoinRoom(s, room) ==
  /\ connected[s]
  /\ CanAccept({SockUser(s)} \cap Users)
  /\ ops' = ops + 1
  /\ rooms' = [rooms EXCEPT ![s] = @ \cup {room}]
  /\ UNCHANGED <<convs, messages, nextConv, nextMsg, inflight, resp, returned, seenMark, sent,
               read, socketUserId, connected>>

\* leave_conversation: socket.leave(conversationId).
LeaveConversation(s, c) ==
  /\ connected[s]
  /\ CanAccept({SockUser(s)} \cap Users)
  /\ ops' = ops + 1
  /\ rooms' = [rooms EXCEPT ![s] = @ \ {c}]
  /\ UNCHANGED <<convs, messages, nextConv, nextMsg, inflight, resp, returned, seenMark, sent,
               read, socketUserId, connected>>

\* ------------------------------------------------ user-online, disconnect
\* The room user_<userId>: no conversation id names it.
UserRoom(u) == 0 - Rank(u)

\* user-online of the connection handler of the server: socket.userId is set
\* to the id the client sends, the connection joins user_<userId> and
\* io.emit tells every open connection.
UserOnline(s, u) ==
  /\ connected[s]
  /\ CanAccept({u})
  /\ ops' = ops + 1
  /\ socketUserId' = [socketUserId EXCEPT ![s] = u]
  /\ rooms' = [rooms EXCEPT ![s] = @ \cup {UserRoom(u)}]
  /\ sent' = Event("user-status", NoConv, NoMsg, [t \in Sockets |-> IF connected[t] THEN 1 ELSE 0])
  /\ UNCHANGED <<convs, messages, nextConv, nextMsg, inflight, resp, returned, seenMark, read,
               connected>>

\* A disconnect that takes the handlers of the connection with it.
SurvivingOthers(s) == {h \in inflight : h.sock # s}

\* The handlers in flight after connection s has closed: the disconnect
\* handlers touch none of them.
Surviving(s) == inflight

\* The connection closes: socket.io takes it out of its rooms and runs the
\* disconnect handlers, of which the chat one starts with Conversation.find.
Disconnect(s) ==
  /\ connected[s]
  /\ CanAccept({SockUser(s)} \cap Users)
  /\ ops' = ops + 1
  /\ connected' = [connected EXCEPT ![s] = FALSE]
  /\ rooms' = [rooms EXCEPT ![s] = {}]
  /\ inflight' = Surviving(s) \cup
       {[Handler("disconnect", "find", SockUser(s), NoConv) EXCEPT !.sock = s]}
  /\ UNCHANGED <<convs, messages, nextConv, nextMsg, resp, returned, seenMark, sent, read,
               socketUserId>>

\* Conversation.find({participants: socket.userId})
ConversationsOf(u) == {c \in DOMAIN convs : u \in Users /\ HasParticipant(convs[c], u)}

\* conversations.forEach: socket.to(conv).emit('user_status_change', {isOnline:
\* false}) for every conversation found, in the order of the result, which
\* the query does not determine; sent keeps the last of them.
DC_Emit(h) ==
  /\ h.op = "disconnect" /\ h.pc = "find"
  /\ IF ConversationsOf(h.actor) = {} THEN sent' = sent
     ELSE \E c \in ConversationsOf(h.actor) :
            sent' = Event("user_status_change(false)", c, NoMsg, InRoomExcept(c, h.sock))
  /\ inflight' = inflight \ {h}
  /\ UNCHANGED <<convs, messages, nextConv, nextMsg, ops, resp, returned, seenMark, rooms, read,
               socketUserId, connected>>

\* ------------------------------------------- operations on one group
\* A group exists and the requests that made it have completed: created by
\* u1 with one or two other members, and u2 either a plain member or made an
\* admin by u1.  Group operations follow.
InitGroup ==
  /\ Announced
  /\ \E P \in {{"u1", "u2"}, Users}, A \in {{"u1"}, {"u1", "u2"}} :
       /\ convs = (FixedConv :> [NewConv("group", BagOf(P), A, "u1", "created the group",
                                         MapSet(<< >>, P, 0)) EXCEPT !.groupName = "team"])
       /\ messages = (IF A = {"u1"}
                      THEN (1 :> [NewMessage(FixedConv, "u1", "system", "created", FALSE) EXCEPT !.createdAt = 1])
                      ELSE (1 :> [NewMessage(FixedConv, "u1", "system", "created", FALSE) EXCEPT !.createdAt = 1])
                           @@ (2 :> [NewMessage(FixedConv, "u1", "system", "is now an admin", FALSE)
                                     EXCEPT !.createdAt = 2]))
       /\ nextMsg = (IF A = {"u1"} THEN 2 ELSE 3)
       /\ resp = (IF A = {"u1"} THEN Response("createGroup", "201", FixedConv)
                  ELSE Response("makeAdmin", "200", FixedConv))
       /\ seenMark = (FixedConv :> [u \in Users |-> 1])
  /\ returned = {}
  /\ nextConv = 2
  /\ inflight = {}
  /\ ops = 0
  /\ rooms = [s \in Sockets |-> {}]
  /\ sent = NoEvent
  /\ read = NoRead

NextGroup ==
  \/ \E a \in Users, g \in KnownConvs, P \in SUBSET Users : AGM_Find(a, g, P)
  \/ \E h \in inflight : AGM_AddToSet(h)
  \/ \E h \in inflight : AGM_SetUnread(h)
  \/ \E h \in inflight : AGM_Message(h)
  \/ \E a \in Users, g \in KnownConvs, t \in Users : RGM_Find(a, g, t)
  \/ \E h \in inflight : RGM_Pull(h)
  \/ \E h \in inflight : RGM_Message(h)
  \/ \E a \in Users, g \in KnownConvs : LG_Find(a, g)
  \/ \E h \in inflight : LG_Pull(h)
  \/ \E h \in inflight : LG_Message(h)
  \/ \E a \in Users, g \in KnownConvs, t \in Users : MA_Find(a, g, t)
  \/ \E h \in inflight : MA_AddToSet(h)
  \/ \E h \in inflight : MA_Message(h)
  \/ \E a \in Users, g \in KnownConvs, t \in Users : RA_Find(a, g, t)
  \/ \E h \in inflight : RA_Pull(h)
  \/ \E h \in inflight : RA_Message(h)
  \/ \E a \in Users, g \in KnownConvs : DG_Find(a, g)
  \/ \E h \in inflight : DG_DeleteMany(h)
  \/ \E h \in inflight : DG_Delete(h)
  \/ \E a \in Users, g \in KnownConvs, n \in UpdateNames : UGI_Find(a, g, n)
  \/ \E h \in inflight : UGI_Update(h)
  \/ \E h \in inflight : UGI_Message(h)

SpecGroup == InitGroup /\ [][NextGroup]_vars

\* ------------------------------------------- room joins on one group
\* Connections join and leave rooms while members are added to the group of
\* InitGroup, removed from it, or leave it.
NextRooms ==
  \/ \E s \in Sockets, c \in KnownConvs : JoinConversation(s, c)
  \/ \E s \in Sockets, c \in KnownConvs : JoinRoom(s, c)
  \/ \E s \in Sockets, c \in KnownConvs : LeaveConversation(s, c)
  \/ \E a \in Users, g \in KnownConvs, P \in SUBSET Users : AGM_Find(a, g, P)
  \/ \E h \in inflight : AGM_AddToSet(h)
  \/ \E h \in inflight : AGM_SetUnread(h)
  \/ \E h \in inflight : AGM_Message(h)
  \/ \E a \in Users, g \in KnownConvs, t \in Users : RGM_Find(a, g, t)
  \/ \E h \in inflight : RGM_Pull(h)
  \/ \E h \in inflight : RGM_Message(h)
  \/ \E a \in Users, g \in KnownConvs : LG_Find(a, g)
  \/ \E h \in inflight : LG_Pull(h)
  \/ \E h \in inflight : LG_Message(h)

SpecRooms == InitGroup /\ [][NextRooms]_vars

\* ------------------------------------- sends and read receipts interleaved
\* The conversation of InitFixed exists; its participants send, and any user
\* marks the conversation seen over the socket or over REST.
NextSeen ==
  \/ \E a \in Members(convs[FixedConv]), b \in FixedBodies : SM_Create(a, FixedConv, b)
  \/ \E h \in inflight : SM_Populate(h)
  \/ \E h \in inflight : SM_FindConv(h)
  \/ \E h \in inflight : SM_Update(h)
  \/ \E s \in MainSockets, m \in KnownMsgs \cup {NoMsg} : MS_Set(s, FixedConv, m)
  \/ \E h \in inflight : MS_ReadBy(h)
  \/ \E a \in Users : MCR(a, FixedConv)

SpecSeen == InitFixed /\ [][NextSeen]_vars

\* --------------------------------------------------- broadcasts to a room
\* The conversation of FixedStores exists; either no connection is in its
\* room yet or both connections of every participant have joined it.
\* Participants send; connections mark seen, type, join and leave.
InitCast ==
  /\ Announced
  /\ FixedStores
  /\ \E J \in {{}, {s \in Sockets : HasParticipant(convs[FixedConv], SockUser(s))}} :
       rooms = [s \in Sockets |-> IF s \in J THEN {FixedConv} ELSE {}]

NextCast ==
  \/ \E a \in Members(convs[FixedConv]), b \in FixedBodies : SM_Create(a, FixedConv, b)
  \/ \E h \in inflight : SM_Populate(h)
  \/ \E h \in inflight : SM_FindConv(h)
  \/ \E h \in inflight : SM_Update(h)
  \/ \E s \in Sockets, m \in KnownMsgs \cup {NoMsg} : MS_Set(s, FixedConv, m)
  \/ \E h \in inflight : MS_ReadBy(h)
  \/ \E s \in Sockets, b \in BOOLEAN : Typing(s, FixedConv, b)
  \/ \E s \in Sockets : JoinConversation(s, FixedConv)
  \/ \E s \in Sockets : LeaveConversation(s, FixedConv)

SpecCast == InitCast /\ [][NextCast]_vars

\* ------------------------------------------- operations on messages
\* The conversation of InitFixed exists.  Participants send; any user reacts
\* to, deletes and reads messages.
NextMsgs ==
  \/ \E a \in Members(convs[FixedConv]), b \in FixedBodies : SM_Create(a, FixedConv, b)
  \/ \E h \in inflight : SM_Populate(h)
  \/ \E h \in inflight : SM_FindConv(h)
  \/ \E h \in inflight : SM_Update(h)
  \/ \E a \in Users, c \in KnownConvs, m \in KnownMsgs, t \in Tokens : AddReaction(a, c, m, t)
  \/ \E a \in Users, c \in KnownConvs, m \in KnownMsgs : RemoveReaction(a, c, m)
  \/ \E a \in Users, m \in KnownMsgs : DEL_Find(a, FixedConv, m)
  \/ \E h \in inflight : DEL_Update(h)
  \/ \E a \in Users, m \in KnownMsgs : DM_Find(a, m)
  \/ \E h \in inflight : DM_Update(h)
  \/ \E a \in Users, c \in KnownConvs : GM_Find(a, c, DefaultLimit, NoTime)
  \/ \E h \in inflight : GM_Query(h)
  \/ \E a \in Users, c \in KnownConvs : GetConversationDetails(a, c)

SpecMsgs == InitFixed /\ [][NextMsgs]_vars

\* ------------------------------------------------ paging through history
\* Messages a conversation holds at most when paging starts, and the page size.
PageLimit == 2
MaxHistory == MaxOps + 1

\* ------------------------------------------------ sends and disconnects
\* The participants send to the conversation of InitCast, each from one of
\* their connections, and their connections close at any time; the store
\* answers every call.
InConversation(s) == SockUser(s) \in Users /\ HasParticipant(convs[FixedConv], SockUser(s))

NextDrop ==
  \/ \E s \in MainSockets, b \in FixedBodies :
       InConversation(s) /\ SM_CreateFrom(s, FixedConv, b, NoMsg)
  \/ \E h \in inflight : SM_Populate(h)
  \/ \E h \in inflight : SM_FindConv(h)
  \/ \E h \in inflight : SM_Update(h)
  \/ \E s \in Sockets : InConversation(s) /\ Disconnect(s)
  \/ \E h \in inflight : DC_Emit(h)

SpecDrop == InitCast /\ [][NextDrop]_vars

\* A handler suspended at a store call resumes when the store answers: the
\* event loop runs every continuation that is ready.
HandlerStep(i) ==
  \E h \in inflight :
     h.id = i /\ (SM_Populate(h) \/ SM_FindConv(h) \/ SM_Update(h) \/ DC_Emit(h))

SpecDropLive == SpecDrop /\ \A i \in 1..MaxInflight : WF_vars(HandlerStep(i))

\* --------------------------------------------------- connection life cycle
\* The conversation of FixedStores exists and every connection has just been
\* made: socket.userId is not set and the connection is in no room.
InitConn ==
  /\ socketUserId = [s \in Sockets |-> NoUser]
  /\ connected = [s \in Sockets |-> TRUE]
  /\ FixedStores
  /\ rooms = [s \in Sockets |-> {}]

NextConn ==
  \/ \E s \in Sockets, u \in Users : UserOnline(s, u)
  \/ \E s \in Sockets : JoinRoom(s, FixedConv)
  \/ \E s \in Sockets : JoinConversation(s, FixedConv)
  \/ \E s \in Sockets : LeaveConversation(s, FixedConv)
  \/ \E s \in Sockets, b \in BOOLEAN : Typing(s, FixedConv, b)
  \/ \E s \in Sockets : Disconnect(s)
  \/ \E h \in inflight : DC_Emit(h)

SpecConn == InitConn /\ [][NextConn]_vars

\* ------------------------------------------------------ sends with replyTo
\* An id that names no message: the store assigns ids up to MaxOps + 1.
StrayMsg == MaxOps + 2

\* The participants send to the conversation of InitFixed; a send may carry
\* in replyTo the id of a message or an id the client made up.
NextReply ==
  \/ \E s \in MainSockets, b \in FixedBodies, r \in KnownMsgs \cup {NoMsg, StrayMsg} :
       InConversation(s) /\ SM_CreateFrom(s, FixedConv, b, r)
  \/ \E h \in inflight : SM_Populate(h)
  \/ \E h \in inflight : SM_FindConv(h)
  \/ \E h \in inflight : SM_Update(h)

SpecReply == InitFixed /\ [][NextReply]_vars

\* ------------------------------------------- broadcasts after a removal
\* Connections join the room of the group of InitGroup through
\* join_conversation while members are removed or leave, and the members of
\* the moment send and react.
NextEvict ==
  \/ \E s \in Sockets : JoinConversation(s, FixedConv)
  \/ \E a \in Users, t \in Users : RGM_Find(a, FixedConv, t)
  \/ \E h \in inflight : RGM_Pull(h)
  \/ \E h \in inflight : RGM_Message(h)
  \/ \E a \in Users : LG_Find(a, FixedConv)
  \/ \E h \in inflight : LG_Pull(h)
  \/ \E h \in inflight : LG_Message(h)
  \/ \E a \in Members(convs[FixedConv]), b \in FixedBodies : SM_Create(a, FixedConv, b)
  \/ \E h \in inflight : SM_Populate(h)
  \/ \E h \in inflight : SM_FindConv(h)
  \/ \E h \in inflight : SM_Update(h)
  \/ \E a \in Members(convs[FixedConv]), m \in KnownMsgs, t \in Tokens :
       AddReaction(a, FixedConv, m, t)

SpecEvict == InitGroup /\ [][NextEvict]_vars

\* ------------------------------------------------- sends while members join
\* Members are added to the group of InitGroup while its members send.
NextAdd ==
  \/ \E a \in Users, P \in SUBSET Users : AGM_Find(a, FixedConv, P)
  \/ \E h \in inflight : AGM_AddToSet(h)
  \/ \E h \in inflight : AGM_SetUnread(h)
  \/ \E h \in inflight : AGM_Message(h)
  \/ \E a \in Members(convs[FixedConv]), b \in FixedBodies : SM_Create(a, FixedConv, b)
  \/ \E h \in inflight : SM_Populate(h)
  \/ \E h \in inflight : SM_FindConv(h)
  \/ \E h \in inflight : SM_Update(h)

SpecAdd == InitGroup /\ [][NextAdd]_vars

\* ------------------------------------------------- sends and store errors
\* As NextFixed, and the conversation update of a send may fail; connections
\* also ask to join rooms and to delete messages, which may be refused.
NextFail ==
  \/ \E s \in MainSockets, b \in FixedBodies : SM_CreateFrom(s, FixedConv, b, NoMsg)
  \/ \E h \in inflight : SM_Populate(h)
  \/ \E h \in inflight : SM_FindConv(h)
  \/ \E h \in inflight : SM_Update(h)
  \/ \E h \in inflight : SM_UpdateFails(h)
  \/ \E s \in MainSockets : JoinConversation(s, FixedConv)
  \/ \E a \in Users, m \in KnownMsgs : DEL_Find(a, FixedConv, m)
  \/ \E h \in inflight : DEL_Update(h)

SpecFail == InitCast /\ [][NextFail]_vars

\* Insert times of n messages: they never decrease, and successive inserts
\* may share an instant.
Stamps(n) ==
  {t \in [1..n -> 1..n] :
     /\ t[1] = 1
     /\ \A i \in 1..(n - 1) : t[i + 1] \in {t[i], t[i] + 1}}

\* A direct conversation of u1 and u2 in which u1 has sent n messages, all
\* sends completed.
InitPaging ==
  /\ Announced
  /\ \E n \in 1..MaxHistory : \E t \in Stamps(n) :
       /\ messages = [m \in 1..n |->
                        [NewMessage(FixedConv, "u1", "text", "hi", FALSE) EXCEPT !.createdAt = t[m]]]
       /\ nextMsg = n + 1
       /\ convs = (FixedConv :>
                     [NewConv("direct", BagOf({"u1", "u2"}), {}, NoUser, "hi",
                              [u \in {"u1", "u2"} |-> IF u = "u2" THEN n ELSE 0])
                        EXCEPT !.lastMessage = n, !.lastMessageSender = "u1"])
       /\ sent = Event("new_message", FixedConv, n, [s \in Sockets |-> 0])
       /\ resp = Response("send_message", "ok", n)
  /\ returned = {<<{"u1", "u2"}, FixedConv>>}
  /\ seenMark = (FixedConv :> [u \in Users |-> 1])
  /\ nextConv = 2
  /\ inflight = {}
  /\ ops = 0
  /\ rooms = [s \in Sockets |-> {}]
  /\ read = NoRead

\* A participant asks for the first page, then for the page before the
\* oldest message of the page in hand.
NextPaging ==
  \/ \E a \in Members(convs[FixedConv]) :
       inflight = {} /\ GM_Find(a, FixedConv, PageLimit, NextCursor)
  \/ \E h \in inflight : GM_Query(h)

SpecPaging == InitPaging /\ [][NextPaging]_vars

\* ================================================================ claims
Groups == {c \in DOMAIN convs : convs[c].type = "group"}
Directs == {c \in DOMAIN convs : convs[c].type = "direct"}
SendHandlers == {h \in inflight : h.op = "send_message"}
\* Handlers that left their suspension point in this step.
Resumed == inflight \ inflight'
\* Handlers that were accepted in this step.
Accepted == {h \in inflight' : \A k \in inflight : k.id # h.id}
StoresUnchanged == convs' = convs /\ messages' = messages
\* The step accepted a request: a REST call or a socket event.
RequestStep == ops' = ops + 1
\* Conversations whose participants fit the data model: a direct conversation
\* has two distinct users.  The claims about counters and sends are stated on
\* these, so that no violation rests on a self-conversation (C7).
WellFormed == {c \in DOMAIN convs :
                 convs[c].type = "direct" => Cardinality(Members(convs[c])) = 2}

\* C1: in every reachable state the key set of unreadCounts of every
\* conversation equals its participant set.
C1_UnreadKeysAreParticipants ==
  \A c \in WellFormed : DOMAIN convs[c].unreadCounts = Members(convs[c])

\* Sends of users other than p whose conversation update has been applied.
CompletedSendsByOthers(c, p) ==
  Cardinality({m \in DOMAIN messages :
                 /\ messages[m].conversation = c
                 /\ messages[m].type # "system"
                 /\ messages[m].sender # p
                 /\ \A h \in SendHandlers : h.msg # m})

\* C2: with the membership fixed, after any interleaving of sends by the
\* participants, the counter of every participant p equals the number of
\* completed sends of the other participants: each send added exactly one to
\* every counter but its sender's, and none was lost or applied twice.
C2_EachSendCountsOnce ==
  \A p \in Members(convs[FixedConv]) :
     /\ p \in DOMAIN convs[FixedConv].unreadCounts
     /\ convs[FixedConv].unreadCounts[p] = CompletedSendsByOthers(FixedConv, p)

\* C2 witness: a participant's counter stands at 2 after two completed sends
\* of others while a third send is suspended before its conversation update.
C2_Witness ==
  /\ \E p \in Members(convs[FixedConv]) : convs[FixedConv].unreadCounts[p] = 2
  /\ \E h \in SendHandlers : h.pc = "update"

\* C3: a send by an actor who is not a participant of the existing target
\* conversation persists no message and leaves the stores unchanged.
C3_SendByOutsiderRejected ==
  [][\A h \in Accepted :
       (h.op = "send_message" /\ h.conv \in WellFormed
          /\ ~HasParticipant(convs[h.conv], h.actor)) => StoresUnchanged]_vars

\* The validation rule of the send: content, media or kind system.
ValidBody(body) == body.content # "" \/ body.media \/ body.type = "system"

\* C4: a send by a participant whose body has empty content, no media and a
\* kind other than system persists no message and leaves the stores unchanged.
C4_EmptySendRejected ==
  [][\A h \in Accepted :
       (h.op = "send_message" /\ h.conv \in WellFormed
          /\ HasParticipant(convs[h.conv], h.actor) /\ ~ValidBody(h.body)) => StoresUnchanged]_vars

\* C5: in every reachable state at most one direct conversation exists for
\* each unordered pair of users.
C5_OneDirectPerPair ==
  \A c \in Directs, d \in Directs :
     Members(convs[c]) = Members(convs[d]) => c = d

\* C6: every reply of getOrCreateConversation for a pair carries the same
\* conversation id, a call that finds the conversation changes no stored
\* state, and a call that creates it stores a zero counter for both users.
C6_GetOrCreateIdempotent ==
  [][/\ \A x \in returned', y \in returned' : x[1] = y[1] => x[2] = y[2]
     /\ (returned' # returned /\ nextConv' = nextConv) => StoresUnchanged
     /\ \A h \in Resumed : h.op = "getOrCreateConversation" =>
          convs'[nextConv].unreadCounts = [u \in {h.actor, h.target} |-> 0]]_vars

\* C7: no direct conversation has the same user as both participants.
C7_NoSelfConversation ==
  \A c \in Directs : Cardinality(Members(convs[c])) = 2

\* The creator of every group is a participant and an admin.
CreatorIsParticipantAndAdmin ==
  \A g \in Groups : HasParticipant(convs[g], convs[g].createdBy)
                    /\ HasAdmin(convs[g], convs[g].createdBy)

\* The step is a rejection: a reply with an error status, nothing else changed.
Rejected(op) ==
  /\ resp'.op = op /\ resp'.status \in {"400", "403", "404"}
  /\ StoresUnchanged /\ inflight' = inflight

\* C8: the creator of every group is always among its participants and its
\* admins, and removeGroupMember, removeAdmin and leaveGroup aimed at the
\* creator are rejected and change nothing, whoever the actor is.
C8_CreatorProtected ==
  [][/\ CreatorIsParticipantAndAdmin'
     /\ RequestStep => \A g \in Groups, a \in Users :
          /\ RGM_Find(a, g, convs[g].createdBy) => Rejected("removeGroupMember")
          /\ RA_Find(a, g, convs[g].createdBy) => Rejected("removeAdmin")
          /\ (a = convs[g].createdBy /\ LG_Find(a, g)) => Rejected("leaveGroup")]_vars

\* C8 witness: a removeGroupMember request aimed at the creator got the
\* rejection that only the creator guard produces, in a run in which the
\* group has a second admin, and the creator is still participant and admin.
C8_Witness ==
  /\ resp = Response("removeGroupMember", "400", NoConv)
  /\ \E g \in Groups : convs[g].admins # {convs[g].createdBy}
  /\ CreatorIsParticipantAndAdmin

\* C9: in every reachable state the admins of every group are participants.
C9_AdminsAreParticipants ==
  \A g \in Groups : convs[g].admins \subseteq Members(convs[g])

\* Messages persisted in c by senders other than p since p's last markSeen,
\* or since p joined.
UnreadByHistory(c, p) ==
  Cardinality({m \in DOMAIN messages :
                 /\ messages[m].conversation = c
                 /\ messages[m].sender # p
                 /\ m >= seenMark[c][p]})

\* C10: in every reachable state the counter of every participant equals the
\* number of messages persisted in the conversation by others since the
\* participant's last markSeen or join, system messages included.
C10_UnreadIsDerived ==
  \A c \in WellFormed : \A p \in Members(convs[c]) :
     /\ p \in DOMAIN convs[c].unreadCounts
     /\ convs[c].unreadCounts[p] = UnreadByHistory(c, p)

\* Every field of the conversation but its counters is unchanged by the step.
OnlyCountersChange(c) ==
  /\ c \in DOMAIN convs'
  /\ [convs'[c] EXCEPT !.unreadCounts = convs[c].unreadCounts] = convs[c]
  /\ \A d \in DOMAIN convs \ {c} : d \in DOMAIN convs' /\ convs'[d] = convs[d]

\* The counters of the conversation after a markSeen of actor a.
SeenPost(a, c) ==
  /\ OnlyCountersChange(c)
  /\ DOMAIN convs'[c].unreadCounts = DOMAIN convs[c].unreadCounts
  /\ convs'[c].unreadCounts[a] = 0
  /\ \A p \in DOMAIN convs[c].unreadCounts \ {a} :
       convs'[c].unreadCounts[p] = convs[c].unreadCounts[p]

\* C11: a markSeen by a participant (socket mark_seen or the REST read
\* endpoint) sets the actor's counter to 0 and changes no other counter and
\* no membership or preview field; when a message id was given, the step that
\* records the receipt leaves the actor in that message's readBy exactly once
\* and changes nothing else, and no readBy ever holds a user twice.
C11_MarkSeenResetsOnlyActor ==
  [][/\ \A a \in Users, c \in DOMAIN convs :
          HasParticipant(convs[c], a) =>
            /\ \A k \in ConnIds, m \in KnownMsgs \cup {NoMsg} :
                 MS_Set(<<a, k>>, c, m) => SeenPost(a, c) /\ messages' = messages
            /\ MCR(a, c) => SeenPost(a, c) /\ messages' = messages
     /\ \A h \in Resumed :
          (h.op = "mark_seen" /\ h.msg \in DOMAIN messages) =>
            /\ messages'[h.msg].readBy[h.actor] = 1
            /\ [messages' EXCEPT ![h.msg].readBy = messages[h.msg].readBy] = messages
            /\ convs' = convs
     /\ \A m \in DOMAIN messages', u \in Users : messages'[m].readBy[u] <= 1]_vars

\* C11 witness: in a group of three, after a completed send, one participant
\* has marked the message seen (counter 0, in readBy once) while another
\* participant's counter still stands at 1.
C11_Witness ==
  /\ inflight = {}
  /\ \E p \in Members(convs[FixedConv]), q \in Members(convs[FixedConv]), m \in DOMAIN messages :
       /\ p # q /\ messages[m].sender \notin {p, q}
       /\ messages[m].type # "system"
       /\ messages[m].readBy[p] = 1
       /\ convs[FixedConv].unreadCounts[p] = 0
       /\ convs[FixedConv].unreadCounts[q] = 1

\* C12: a markSeen (socket mark_seen or the REST read endpoint) by an actor
\* who is not a participant of the conversation changes neither store: no
\* counter is created for the actor and no readBy gains the actor.
C12_MarkSeenByOutsiderRejected ==
  [][\A a \in Users, c \in WellFormed :
       ~HasParticipant(convs[c], a) =>
         /\ \A k \in ConnIds, m \in KnownMsgs \cup {NoMsg} :
              MS_Set(<<a, k>>, c, m) => StoresUnchanged
         /\ MCR(a, c) => StoresUnchanged
         /\ \A h \in Resumed :
              (h.op = "mark_seen" /\ h.actor = a /\ h.conv = c) => StoresUnchanged]_vars

\* C13: a group handler gets past its role query only for an actor who holds
\* the role in the group at that time (admin for addGroupMembers,
\* removeGroupMember and updateGroupInfo; creator for makeAdmin, removeAdmin
\* and deleteGroup); every other request is answered with an error, and no
\* request changes either store before its handler is past the query.
C13_RoleRequired ==
  [][RequestStep =>
       /\ StoresUnchanged
       /\ Accepted = {} => resp'.status \in {"400", "403", "404"} /\ inflight' = inflight
       /\ \A h \in Accepted :
            /\ h.conv \in Groups
            /\ h.op \in {"addGroupMembers", "removeGroupMember", "updateGroupInfo"} =>
                 h.actor \in convs[h.conv].admins
            /\ h.op \in {"makeAdmin", "removeAdmin", "deleteGroup"} =>
                 h.actor = convs[h.conv].createdBy]_vars

\* C13 witness: makeAdmin was answered 403 while the group, which has an
\* admin besides its creator, is untouched by any handler.
C13_Witness ==
  /\ resp = Response("makeAdmin", "403", NoConv)
  /\ inflight = {}
  /\ \E g \in Groups : Cardinality(convs[g].admins) = 2

\* The step created exactly one system message, of actor a in conversation g.
OneSystemMessage(a, g) ==
  /\ DOMAIN messages' = DOMAIN messages \cup {nextMsg}
  /\ nextMsg \notin DOMAIN messages
  /\ \A m \in DOMAIN messages : messages'[m] = messages[m]
  /\ messages'[nextMsg].type = "system"
  /\ messages'[nextMsg].conversation = g
  /\ messages'[nextMsg].sender = a

\* The step accepted a request of the given operation: it either answered
\* it or started its handler.
RequestOf(op) ==
  /\ RequestStep
  /\ Accepted = {} => resp'.op = op
  /\ \A h \in Accepted : h.op = op

\* C14: addGroupMembers by an admin whose requested users are all
\* participants already is answered with an error and changes nothing;
\* otherwise the handler takes the requested users who are not participants,
\* its first update adds exactly them to participants, its second update
\* gives each of them the counter 0 and changes the counter of no other user,
\* and its last step creates one system message.
C14_AddMembers ==
  [][/\ RequestOf("addGroupMembers") => \A g \in Groups, a \in Users, P \in SUBSET Users :
          (HasAdmin(convs[g], a) /\ AGM_Find(a, g, P)) =>
            IF P \ Members(convs[g]) = {}
            THEN Rejected("addGroupMembers")
            ELSE /\ StoresUnchanged
                 /\ \E h \in Accepted : h.op = "addGroupMembers" /\ h.actor = a /\ h.conv = g
                                          /\ h.users = P \ Members(convs[g])
     /\ \A h \in inflight : h.conv \in DOMAIN convs =>
          /\ AGM_AddToSet(h) =>
               /\ Members(convs'[h.conv]) = Members(convs[h.conv]) \cup h.users
               /\ [convs'[h.conv] EXCEPT !.participants = convs[h.conv].participants] = convs[h.conv]
               /\ messages' = messages
          /\ AGM_SetUnread(h) =>
               /\ OnlyCountersChange(h.conv)
               /\ DOMAIN convs'[h.conv].unreadCounts = DOMAIN convs[h.conv].unreadCounts \cup h.users
               /\ \A u \in h.users : convs'[h.conv].unreadCounts[u] = 0
               /\ \A p \in DOMAIN convs[h.conv].unreadCounts \ h.users :
                    convs'[h.conv].unreadCounts[p] = convs[h.conv].unreadCounts[p]
               /\ messages' = messages
          /\ AGM_Message(h) => OneSystemMessage(h.actor, h.conv) /\ convs' = convs]_vars

\* C14 witness: an addGroupMembers call has completed: u3, who was not in
\* the group of u1 and u2, is a participant with the counter 0 and the system
\* message of the call exists.
C14_Witness ==
  /\ resp = Response("addGroupMembers", "200", FixedConv)
  /\ inflight = {}
  /\ FixedConv \in DOMAIN convs
  /\ HasParticipant(convs[FixedConv], "u3")
  /\ "u3" \in DOMAIN convs[FixedConv].unreadCounts
  /\ convs[FixedConv].unreadCounts["u3"] = 0
  /\ \E m \in DOMAIN messages : messages[m].content = "added"

\* The departing user u is gone from conversation g after the step: from
\* participants, from admins and from the keys of unreadCounts, and nothing
\* else of the conversation changed.
Departed(g, u) ==
  /\ ~HasParticipant(convs'[g], u)
  /\ ~HasAdmin(convs'[g], u)
  /\ u \notin DOMAIN convs'[g].unreadCounts
  /\ \A p \in Users \ {u} :
       /\ convs'[g].participants[p] = convs[g].participants[p]
       /\ HasAdmin(convs'[g], p) <=> HasAdmin(convs[g], p)
       /\ p \in DOMAIN convs[g].unreadCounts =>
            /\ p \in DOMAIN convs'[g].unreadCounts
            /\ convs'[g].unreadCounts[p] = convs[g].unreadCounts[p]

\* C15: the update of removeGroupMember and the update of leaveGroup have
\* the same effect for the departing user: gone from participants, admins and
\* the keys of unreadCounts, every other member as before; the last step of
\* either handler creates one system message.
C15_RemoveAndLeaveAlike ==
  [][\A h \in inflight : h.conv \in DOMAIN convs =>
       /\ RGM_Pull(h) => Departed(h.conv, h.target)
       /\ LG_Pull(h) => Departed(h.conv, h.target)
       /\ (RGM_Message(h) \/ LG_Message(h)) => OneSystemMessage(h.actor, h.conv)]_vars

\* C16: every group that createGroup stores starts with at least three
\* distinct participants, its creator among them as createdBy and only admin,
\* and a counter 0 for every participant; the handler's last step creates
\* one system message.
C16_GroupStartsWithThree ==
  [][\A h \in Accepted : h.op = "createGroup" =>
       /\ h.conv \notin DOMAIN convs /\ h.conv \in DOMAIN convs'
       /\ Cardinality(Members(convs'[h.conv])) >= 3
       /\ HasParticipant(convs'[h.conv], h.actor)
       /\ convs'[h.conv].createdBy = h.actor
       /\ convs'[h.conv].admins = {h.actor}
       /\ convs'[h.conv].unreadCounts = [u \in Members(convs'[h.conv]) |-> 0]]_vars

\* C17: when the handler of deleteGroup completes, the group is gone and no
\* message sent to it exists, whatever send_message handlers ran in between;
\* and no step removes a direct conversation.
C17_DeleteGroupCascades ==
  [][/\ \A h \in Resumed : (h.op = "deleteGroup" /\ h.pc = "delete") =>
          /\ h.conv \notin DOMAIN convs'
          /\ \A m \in DOMAIN messages' :
               messages'[m].type # "system" => messages'[m].conversation # h.conv
     /\ \A c \in Directs : c \in DOMAIN convs']_vars

\* C18: every persisted message references a conversation that exists; in
\* particular a send naming an id that resolves to no conversation persists
\* no message.
C18_MessagesReferToConversations ==
  [][\A m \in DOMAIN messages' \ DOMAIN messages :
       messages'[m].conversation \in DOMAIN convs']_vars

\* C19: a connection enters a conversation's room only in a step in which
\* its user is a participant of that conversation.
C19_RoomJoinNeedsMembership ==
  [][\A s \in Sockets : \A c \in rooms'[s] \ rooms[s] :
       c \in DOMAIN convs /\ HasParticipant(convs[c], SockUser(s))]_vars

\* C20: a mark_seen handler that has made its last store call has delivered
\* an acknowledgment, ok or error, to the connection that sent the event.
C20_MarkSeenAcknowledged ==
  [][\A h \in Resumed : h.op = "mark_seen" =>
       resp'.op = "mark_seen" /\ resp'.status \in {"ok", "error"}]_vars

\* C21: the step that completes a send with ok broadcasts new_message for
\* the persisted message, one copy to every connection that is in the
\* conversation's room in that step, the sender's connections included, and
\* none to any other; in that step the conversation's preview and counters
\* carry the send; a send that ends with an error broadcasts nothing, and
\* new_message is broadcast by no other step.
C21_SendBroadcastOnce ==
  [][/\ \A h \in Resumed : h.op = "send_message" =>
          IF h.pc = "update"
          THEN /\ h.msg \in DOMAIN messages
               /\ sent'.event = "new_message" /\ sent'.room = h.conv /\ sent'.msg = h.msg
               /\ \A s \in Sockets : sent'.to[s] = (IF h.conv \in rooms[s] THEN 1 ELSE 0)
               /\ resp' = Response("send_message", "ok", h.msg)
               /\ convs'[h.conv].lastMessage = h.msg
               /\ \A u \in h.users : convs'[h.conv].unreadCounts[u] = convs[h.conv].unreadCounts[u] + 1
          ELSE sent' = sent
     /\ (sent' # sent /\ sent'.event = "new_message") =>
          \E h \in Resumed : h.op = "send_message" /\ h.pc = "update" /\ h \notin inflight']_vars

\* C21 witness: a send has completed and its new_message went to both
\* connections of the sender and to a connection of another participant,
\* while a connection outside the room got none.
C21_Witness ==
  /\ sent.event = "new_message"
  /\ sent.msg \in DOMAIN messages
  /\ \A k \in ConnIds : sent.to[<<messages[sent.msg].sender, k>>] = 1
  /\ \E s \in Sockets : SockUser(s) # messages[sent.msg].sender /\ sent.to[s] = 1
  /\ \E s \in Sockets : sent.to[s] = 0
  /\ convs[FixedConv].lastMessage = sent.msg

\* C22: messages_seen and user_typing reach no connection of the acting
\* user, whichever of the user's connections sent the event.
C22_ActorExcluded ==
  [][/\ \A s \in Sockets, b \in BOOLEAN :
          Typing(s, FixedConv, b) =>
            \A t \in Sockets : SockUser(t) = SockUser(s) => sent'.to[t] = 0
     /\ \A h \in Resumed : h.op = "mark_seen" =>
          \A t \in Sockets : SockUser(t) = h.actor => sent'.to[t] = 0]_vars

\* The message as its soft delete leaves it: flagged, with the tombstone as
\* content, every other field as before.
Tombstoned(msg) == [msg EXCEPT !.isDeleted = TRUE, !.content = "This message was deleted"]

\* C23: a delete (socket delete_message or REST deleteMessage) requested by
\* anyone but the sender of the message is answered with an error and changes
\* nothing; the update of a delete by the sender sets isDeleted and the
\* tombstone content and leaves reactions, media and readBy of the message
\* and every other message as they were; no step of a delete removes a
\* message record.
C23_SoftDeleteBySender ==
  [][/\ RequestStep => \A a \in Users, m \in DOMAIN messages :
          messages[m].sender # a =>
            /\ DEL_Find(a, FixedConv, m) =>
                 /\ resp' = Response("delete_message", "error", m)
                 /\ StoresUnchanged /\ inflight' = inflight /\ sent' = sent
            /\ DM_Find(a, m) => Rejected("deleteMessage")
     /\ \A h \in Resumed : h.op \in {"delete_message", "deleteMessage"} =>
          /\ h.msg \in DOMAIN messages /\ messages[h.msg].sender = h.actor
          /\ messages' = [messages EXCEPT ![h.msg] = Tombstoned(@)]
          /\ convs' = convs
     /\ \A h \in Accepted : h.op \in {"delete_message", "deleteMessage"} => StoresUnchanged
     /\ DOMAIN messages \subseteq DOMAIN messages']_vars

\* C23 witness: the sender's delete has completed on a message that carries
\* a reaction: the record is still there, flagged and with the tombstone, and
\* the reaction is still on it.
C23_Witness ==
  /\ resp.op \in {"delete_message", "deleteMessage"} /\ resp.status \in {"ok", "200"}
  /\ \E m \in DOMAIN messages :
       /\ messages[m].type # "system"
       /\ messages[m].isDeleted
       /\ messages[m].content = "This message was deleted"
       /\ DOMAIN messages[m].reactions # {}

\* C24: a history read by a participant returns every soft-deleted message
\* of the conversation that fits the page, as it returns the others.
C24_TombstoneReturned ==
  [][\A h \in Resumed : h.op = "getMessages" =>
       \A m \in DOMAIN messages :
          (messages[m].conversation = h.conv /\ messages[m].isDeleted) => m \in read'.data]_vars

\* The message m after a step that changed nothing but its reactions, and
\* among those only the entry of user a.
OnlyReactionOf(a, m) ==
  /\ messages' = [messages EXCEPT ![m].reactions = messages'[m].reactions]
  /\ DOMAIN messages'[m].reactions \ {a} = DOMAIN messages[m].reactions \ {a}
  /\ \A u \in DOMAIN messages[m].reactions \ {a} :
       messages'[m].reactions[u] = messages[m].reactions[u]
  /\ convs' = convs

\* C25: add_reaction leaves the actor's entry equal to the token sent,
\* whatever it was before; remove_reaction leaves the actor without an entry;
\* neither changes the entry of another user or anything else, in every
\* interleaving of the reactions of several users.
C25_ReactionLastWriteWins ==
  [][(RequestStep /\ sent'.event = "message_reaction") =>
       \A m \in DOMAIN messages \cap {sent'.msg}, c \in KnownConvs \cap {sent'.room}, a \in Users :
          /\ \A t \in Tokens : AddReaction(a, c, m, t) =>
               /\ OnlyReactionOf(a, m)
               /\ a \in DOMAIN messages'[m].reactions /\ messages'[m].reactions[a] = t
          /\ RemoveReaction(a, c, m) =>
               /\ OnlyReactionOf(a, m)
               /\ a \notin DOMAIN messages'[m].reactions]_vars

\* C25 witness: two users hold different tokens on one message, after three
\* reaction events: one of the entries was written over or cleared before.
C25_Witness ==
  /\ ops = MaxOps /\ inflight = {}
  /\ sent.event = "message_reaction"
  /\ \E m \in DOMAIN messages : \E u \in DOMAIN messages[m].reactions :
       \E v \in DOMAIN messages[m].reactions :
          messages[m].reactions[u] # messages[m].reactions[v]

\* C26: add_reaction and remove_reaction by an actor who is not a
\* participant of the conversation the message belongs to change no message
\* and broadcast nothing, whatever conversation id the event carries.
C26_ReactionByOutsiderRejected ==
  [][RequestStep => \A a \in Users, c \in KnownConvs, m \in DOMAIN messages :
       (messages[m].conversation \in DOMAIN convs
          /\ ~HasParticipant(convs[messages[m].conversation], a)) =>
         /\ \A t \in Tokens : AddReaction(a, c, m, t) => messages' = messages /\ sent' = sent
         /\ RemoveReaction(a, c, m) => messages' = messages /\ sent' = sent]_vars

\* C28: getMessages and getConversationDetails requested by a user who is
\* not a participant of the conversation are answered with an error and
\* without data, and the history query runs only for a participant and
\* returns messages of that conversation only.
C28_ReadsNeedMembership ==
  [][/\ RequestStep => \A a \in Users, c \in KnownConvs :
          ~(c \in DOMAIN convs /\ HasParticipant(convs[c], a)) =>
            /\ GM_Find(a, c, DefaultLimit, NoTime) =>
                 read'.status = "403" /\ read'.data = {} /\ inflight' = inflight
            /\ GetConversationDetails(a, c) => read'.status = "404" /\ read'.data = {}
     /\ \A h \in Accepted : h.op = "getMessages" => HasParticipant(convs[h.conv], h.actor)
     /\ \A h \in Resumed : h.op = "getMessages" =>
          \A m \in read'.data : messages[m].conversation = h.conv]_vars

\* C28 witness: a history read was refused with 403 while the conversation
\* holds a sent message.
C28_Witness ==
  /\ read.op = "getMessages" /\ read.status = "403" /\ read.data = {}
  /\ \E m \in DOMAIN messages : messages[m].conversation = FixedConv /\ messages[m].type # "system"

\* The handler h ends in this step.
Ends(h) == h \in inflight /\ \A k \in inflight' : k.id # h.id

\* C29: the acknowledgment of a send by a user who is not a participant of
\* the target is the one a send to a conversation that does not exist gets,
\* so that the caller cannot tell whether the conversation exists.
C29_NoExistenceLeak ==
  [][\A h \in inflight :
       (h.op = "send_message" /\ Ends(h)
          /\ (h.conv \notin DOMAIN convs \/ ~HasParticipant(convs[h.conv], h.actor))) =>
         resp' = Response("send_message", "error", NoMsg)]_vars

\* The newest message of conversation c that is not deleted.
Newest(c) ==
  LET S == {m \in DOMAIN messages : messages[m].conversation = c /\ ~messages[m].isDeleted}
  IN IF S = {} THEN NoMsg ELSE CHOOSE m \in S : \A n \in S : n <= m

\* C30: whenever no send is in flight on a direct conversation that holds a
\* message, lastMessage is its newest message that is not deleted, and
\* lastMessageSender and lastMessageContent are that message's sender and
\* preview.
C30_PreviewIsNewest ==
  \A c \in Directs :
     ((\A h \in SendHandlers : h.conv # c) /\ Newest(c) # NoMsg) =>
       /\ convs[c].lastMessage = Newest(c)
       /\ convs[c].lastMessageSender = messages[Newest(c)].sender
       /\ convs[c].lastMessageContent = PreviewText(messages[Newest(c)])

\* C27: when paging with a fixed limit, each request taking the oldest
\* createdAt of the page in hand as its cursor, comes to a page shorter than
\* the limit, every message of the conversation has been returned exactly
\* once, messages of equal createdAt included.
C27_PagingComplete ==
  (read.op = "getMessages" /\ read.status = "200" /\ Cardinality(read.data) < read.limit) =>
    /\ \A m \in HistoryQuery(FixedConv, NoTime) : m \in DOMAIN read.got
    /\ \A m \in DOMAIN read.got : read.got[m] = 1

\* C31: every step that changes the conversation is the update of one send
\* and applies all of it at once: the preview fields name that send's
\* message, sender and preview text, and the counter of every other
\* participant is one higher; every send that reaches its update makes such
\* a step.  No state lies between the preview of a send and its increments.
C31_PreviewWithCounters ==
  [][/\ \A c \in DOMAIN convs : convs'[c] # convs[c] =>
          \E h \in Resumed :
             /\ h.op = "send_message" /\ h.pc = "update" /\ h.conv = c
             /\ h.users = Members(convs[c]) \ {h.actor}
             /\ convs'[c] = [convs[c] EXCEPT
                                !.lastMessage = h.msg,
                                !.lastMessageContent = PreviewText(h.body),
                                !.lastMessageSender = h.actor,
                                !.unreadCounts = MapInc(@, h.users)]
     /\ \A h \in Resumed : (h.op = "send_message" /\ h.pc = "update") =>
          /\ convs'[h.conv].lastMessage = h.msg
          /\ \A u \in h.users :
               convs'[h.conv].unreadCounts[u] = convs[h.conv].unreadCounts[u] + 1]_vars

\* C31 witness: in a group of three, the send named by the preview has just
\* completed while another send is still before its update, and both other
\* participants' counters include it.
C31_Witness ==
  /\ Cardinality(Members(convs[FixedConv])) = 3
  /\ resp = Response("send_message", "ok", NoMsg)
  /\ convs[FixedConv].lastMessage # NoMsg
  /\ \E h \in SendHandlers : h.pc = "update"
  /\ \A u \in Members(convs[FixedConv]) \ {convs[FixedConv].lastMessageSender} :
       convs[FixedConv].unreadCounts[u] >= 1

\* C32: a send updates the preview and broadcasts new_message only after
\* every send that its connection emitted earlier to the same conversation
\* has done so: at its update no earlier send of the connection is pending.
C32_ConnectionOrder ==
  [][\A h \in Resumed : (h.op = "send_message" /\ h.pc = "update") =>
       \A k \in inflight :
          (k.op = "send_message" /\ k.sock = h.sock /\ k.conv = h.conv /\ k.id # h.id) =>
            k.msg > h.msg]_vars

\* The ids a message can take within the bound of a run.
MessageIds == 1..(MaxOps + 1)

\* The send of message m has completed: the conversation names m in its
\* preview and new_message for m has just gone to the connections that are
\* in the room.
CommittedAndBroadcast(m) ==
  /\ m \in DOMAIN messages
  /\ convs[FixedConv].lastMessage = m
  /\ sent = Event("new_message", FixedConv, m, InRoom(FixedConv))
  /\ resp = Response("send_message", "ok", m)

\* C33: a send that has been received runs to completion whatever
\* connections close meanwhile, its own included: its message stays
\* persisted, the conversation is updated and new_message is eventually
\* broadcast to the connections then in the room.
C33_SendSurvivesDisconnect ==
  \A m \in MessageIds :
     (\E h \in SendHandlers : h.msg = m) ~> CommittedAndBroadcast(m)

\* C33 witness: new_message has gone to the connections left in the room
\* after both connections of the sender, which were in the room, closed
\* while the send was in flight.
C33_Witness ==
  /\ sent.event = "new_message" /\ sent.msg \in DOMAIN messages
  /\ CommittedAndBroadcast(sent.msg)
  /\ \E t \in Sockets : sent.to[t] = 1
  /\ \A s \in Sockets : Owner(s) = messages[sent.msg].sender => ~connected[s] /\ sent.to[s] = 0

\* C34: a send whose conversation update fails after its message was
\* persisted acknowledges an error to its sender and broadcasts nothing, the
\* message staying in the store; and no step in which a handler reports an
\* error, as its last step or on refusing a request, emits to a room.
C34_FailedUpdateIsPrivate ==
  [][/\ \A h \in Resumed : SM_UpdateFails(h) =>
          /\ resp' = Response("send_message", "error", NoMsg)
          /\ sent' = sent
          /\ h.msg \in DOMAIN messages' /\ messages' = messages
     /\ \A h \in Resumed : (Ends(h) /\ resp'.status = "error") => sent' = sent
     /\ (RequestStep /\ resp' # resp /\ resp'.status = "error") => sent' = sent]_vars

\* C34 witness: with connections in the room, a send has ended in an error
\* acknowledgment while its message is in the store and the last broadcast,
\* if any, is not about it.
C34_Witness ==
  /\ resp = Response("send_message", "error", NoMsg)
  /\ \E s \in Sockets : FixedConv \in rooms[s]
  /\ \E m \in DOMAIN messages :
       /\ messages[m].type # "system"
       /\ sent.msg # m
       /\ \A h \in SendHandlers : h.msg # m

\* C35: the user id of a connection, once set, stays what it is, and a
\* connection enters a conversation room only after its user id was set.
C35_BoundOnce ==
  [][\A s \in Sockets :
       /\ socketUserId[s] # NoUser => socketUserId'[s] = socketUserId[s]
       /\ (rooms'[s] \ rooms[s]) \cap DOMAIN convs # {} => socketUserId[s] # NoUser]_vars

\* C36: the replyTo of every stored message, when set, names a stored message
\* of the same conversation.
C36_ReplyInConversation ==
  \A m \in DOMAIN messages :
     messages[m].replyTo # NoMsg =>
       /\ messages[m].replyTo \in DOMAIN messages
       /\ messages[messages[m].replyTo].conversation = messages[m].conversation

\* The events of a conversation's room that carry its messages.
RoomEvents == {"new_message", "message_reaction", "message_deleted", "messages_seen"}

\* C37: a broadcast of new_message, message_reaction, message_deleted or
\* messages_seen to the room of a group reaches no connection of a user who
\* is no longer a participant of the group, connections that joined the room
\* while the user was one included.
C37_NoBroadcastAfterRemoval ==
  [][(sent' # sent /\ sent'.event \in RoomEvents /\ sent'.room \in DOMAIN convs') =>
       \A s \in Sockets :
          sent'.to[s] = 1 => HasParticipant(convs'[sent'.room], SockUser(s))]_vars

\* C38: the step of addGroupMembers that initialises the counters of the
\* new members lowers no counter: an increment that a send has applied for a
\* new member since the member was put among the participants is kept.
C38_IncrementKept ==
  [][\A h \in Resumed : (h.op = "addGroupMembers" /\ h.pc = "setUnread") =>
       \A u \in h.users \cap DOMAIN convs[h.conv].unreadCounts :
          convs'[h.conv].unreadCounts[u] >= convs[h.conv].unreadCounts[u]]_vars

\* C39: a removeGroupMember whose target was not among the participants of
\* the group it read changes nothing in the conversation and creates no
\* message.
C39_RemoveOutsiderNoEffect ==
  [][\A h \in Resumed : (h.op = "removeGroupMember" /\ h.target \notin h.users) =>
       /\ convs' = convs
       /\ messages' = messages]_vars

\* C40: the disconnect handler of a connection announces its user as
\* offline to the rooms of the user's conversations only when no other
\* connection of the user is open.
C40_OfflineOnLastDisconnect ==
  [][\A h \in Resumed :
       (h.op = "disconnect" /\ ConversationsOf(h.actor) # {}
          /\ sent'.event = "user_status_change(false)") =>
         \A s \in Sockets : SockUser(s) = h.actor => ~connected[s]]_vars
====
